---- MODULE Spec2Model ----
(***************************************************************************)
(* Model of the in-memory banking ledger of                                *)
(* node-api-monitoring/banking-services/database.js: the customers table,  *)
(* the transactions table, the analytics counters, and the operations      *)
(* processDeposit, processWithdrawal and processTransfer with the helpers  *)
(* they call.  Node runs each of these synchronous functions to completion *)
(* on its single thread, so each call is one atomic step.                  *)
(***************************************************************************)
EXTENDS Integers, Sequences, FiniteSets, TLC

VARIABLES customers,     \* db.customers: sequence of customer records
          transactions,  \* db.transactions: sequence of transaction records
          analytics,     \* db.analytics
          uuidCount,     \* number of ids uuidv4() has handed out
          clock,         \* the value `new Date()` reads, in abstract ticks
          pre,           \* the tables as they were when the last call started
          last,          \* the last call: operation, arguments, returned value
          sessions,      \* db.sessions: sequence of session ids
          calls          \* per request: its arguments, the statement it has
                         \* reached and the locals of its function body

vars == <<customers, transactions, analytics, uuidCount, clock, pre, last,
          sessions, calls>>

----------------------------------------------------------------------------
(* Bounds and inputs *)

\* number of ledger calls explored
MaxOps == 2

\* a key that the object literal does not carry (undefined in JavaScript)
Absent == "<absent>"

\* what getCustomerBalance returns: a number, or null
Null == [isNull |-> TRUE, value |-> 0]
Number(n) == [isNull |-> FALSE, value |-> n]

\* account numbers the callers pass: the three seeded ones and one that is
\* not in db.customers
AccountNumbers == {"10001", "10002", "10003", "nonexistent"}

\* amounts the callers pass: negative, zero, one every seeded balance covers,
\* and one that exceeds the balance of 10001 only
Amounts == {-6000, 0, 750, 6000}

\* the requests the statement-level specification follows
Requests == {"r1", "r2"}

\* session ids the callers pass
SessionIds == {"s1", "s2"}

\* the values uuidv4() returns, in order: pairwise distinct, and distinct from
\* the seeded ids
UUIDs == <<"uuid-1", "uuid-2", "uuid-3", "uuid-4", "uuid-5", "uuid-6">>

----------------------------------------------------------------------------
(* The tables at module load *)

InitCustomers ==
  << [id |-> "1", accountNumber |-> "10001", balance |-> 5000],
     [id |-> "2", accountNumber |-> "10002", balance |-> 7500],
     [id |-> "3", accountNumber |-> "10003", balance |-> 12000] >>

InitTransactions ==
  << [id |-> "t1", accountNumber |-> "10001", type |-> "deposit",
      amount |-> 1000, destinationAccount |-> Absent, timestamp |-> -4,
      status |-> "completed", reason |-> Absent],
     [id |-> "t2", accountNumber |-> "10002", type |-> "withdrawal",
      amount |-> 500, destinationAccount |-> Absent, timestamp |-> -2,
      status |-> "completed", reason |-> Absent],
     [id |-> "t3", accountNumber |-> "10001", type |-> "transfer",
      amount |-> 750, destinationAccount |-> "10003", timestamp |-> -1,
      status |-> "completed", reason |-> Absent] >>

InitAnalytics ==
  [activeSessions |-> 0, totalTransactions |-> 3, depositTotal |-> 1000,
   withdrawalTotal |-> 500, transferTotal |-> 750]

\* the database as one value, as the helper operators take and return it
DB == [customers |-> customers, transactions |-> transactions,
       analytics |-> analytics, uuidCount |-> uuidCount, clock |-> clock]

----------------------------------------------------------------------------
(* Sums used by the properties *)

RECURSIVE SumAmounts(_)
\* sum of t.amount over a sequence of transaction records
SumAmounts(seq) ==
  IF seq = <<>> THEN 0 ELSE Head(seq).amount + SumAmounts(Tail(seq))

RECURSIVE SumBalances(_)
\* sum of c.balance over a customers table
SumBalances(seq) ==
  IF seq = <<>> THEN 0 ELSE Head(seq).balance + SumBalances(Tail(seq))

----------------------------------------------------------------------------
(* customerOperations *)

\* index in db.customers of the customer with this account number, 0 if none
\* (Array.prototype.find returns the first match)
customerIndex(db, accountNumber) ==
  LET hits == {i \in 1..Len(db.customers) :
                 db.customers[i].accountNumber = accountNumber}
  IN  IF hits = {} THEN 0
      ELSE CHOOSE i \in hits : \A j \in hits : i <= j

getCustomerByAccountNumber(db, accountNumber) ==
  customerIndex(db, accountNumber)

getCustomerBalance(db, accountNumber) ==
  LET i == customerIndex(db, accountNumber)
  IN  IF i # 0 THEN Number(db.customers[i].balance) ELSE Null

\* mutant: the balance is overwritten with the amount instead of adjusted
updateCustomerBalance_Assign(db, accountNumber, amount) ==
  LET i == customerIndex(db, accountNumber)
  IN  IF i # 0
        THEN [db  |-> [db EXCEPT !.customers[i].balance = amount],
              ret |-> TRUE]
        ELSE [db |-> db, ret |-> FALSE]

\* mutant: an account number that is not found is added as a new customer
updateCustomerBalance_Upsert(db, accountNumber, amount) ==
  LET i == customerIndex(db, accountNumber)
  IN  IF i # 0
        THEN [db  |-> [db EXCEPT !.customers[i].balance = @ + amount],
              ret |-> TRUE]
        ELSE [db  |-> [db EXCEPT !.customers =
                         Append(@, [id |-> accountNumber,
                                    accountNumber |-> accountNumber,
                                    balance |-> amount])],
              ret |-> TRUE]

updateCustomerBalance(db, accountNumber, amount) ==
  LET i == customerIndex(db, accountNumber)
  IN  IF i # 0
        THEN [db  |-> [db EXCEPT !.customers[i].balance = @ + amount],
              ret |-> TRUE]
        ELSE [db |-> db, ret |-> FALSE]

----------------------------------------------------------------------------
(* transactionOperations *)

\* the object literal a caller passes to createTransaction; keys it does not
\* set are Absent
TransactionInput(accountNumber, type, amount, destinationAccount, status, reason) ==
  [accountNumber |-> accountNumber, type |-> type, amount |-> amount,
   destinationAccount |-> destinationAccount, status |-> status,
   reason |-> reason]

uuidv4(db) == UUIDs[db.uuidCount + 1]

\* { id, timestamp, status: 'pending', ...transaction }: the spread comes
\* last, so a status the caller passes replaces 'pending'
newTransactionRecord(db, transaction) ==
  [id |-> uuidv4(db),
   timestamp |-> db.clock,
   status |-> IF transaction.status # Absent THEN transaction.status
              ELSE "pending",
   accountNumber |-> transaction.accountNumber,
   type |-> transaction.type,
   amount |-> transaction.amount,
   destinationAccount |-> transaction.destinationAccount,
   reason |-> transaction.reason]

\* mutant: a record that is created already failed is not counted
analyticsAfterCreate_CountPendingOnly(a, transaction) ==
  [a EXCEPT
     !.totalTransactions = IF transaction.status = "failed" THEN @ ELSE @ + 1,
     !.depositTotal = IF transaction.type = "deposit"
                        THEN @ + transaction.amount ELSE @,
     !.withdrawalTotal = IF transaction.type = "withdrawal"
                           THEN @ + transaction.amount ELSE @,
     !.transferTotal = IF transaction.type = "transfer"
                         THEN @ + transaction.amount ELSE @]

\* mutant: the amount of a record that is created already failed is not
\* added to the total of its type
analyticsAfterCreate_TotalsSkipFailed(a, transaction) ==
  [a EXCEPT
     !.totalTransactions = @ + 1,
     !.depositTotal = IF transaction.type = "deposit"
                         /\ transaction.status # "failed"
                        THEN @ + transaction.amount ELSE @,
     !.withdrawalTotal = IF transaction.type = "withdrawal"
                            /\ transaction.status # "failed"
                           THEN @ + transaction.amount ELSE @,
     !.transferTotal = IF transaction.type = "transfer"
                          /\ transaction.status # "failed"
                         THEN @ + transaction.amount ELSE @]

\* the analytics counters after a record of this type and amount is created
analyticsAfterCreate(a, transaction) ==
  [a EXCEPT
     !.totalTransactions = @ + 1,
     !.depositTotal = IF transaction.type = "deposit"
                        THEN @ + transaction.amount ELSE @,
     !.withdrawalTotal = IF transaction.type = "withdrawal"
                           THEN @ + transaction.amount ELSE @,
     !.transferTotal = IF transaction.type = "transfer"
                         THEN @ + transaction.amount ELSE @]

\* mutant: the new record is put at the front of the array (unshift)
createTransaction_Unshift(db, transaction) ==
  [db  |-> [db EXCEPT
              !.transactions = <<newTransactionRecord(db, transaction)>> \o @,
              !.uuidCount = @ + 1,
              !.analytics = analyticsAfterCreate(@, transaction)],
   ret |-> 1]

\* ret is the position of the new record in db.transactions: the function
\* returns the very object it pushed
createTransaction(db, transaction) ==
  [db  |-> [db EXCEPT
              !.transactions = Append(@, newTransactionRecord(db, transaction)),
              !.uuidCount = @ + 1,
              !.analytics = analyticsAfterCreate(@, transaction)],
   ret |-> Len(db.transactions) + 1]

\* index in db.transactions of the first record with this id, 0 if none
transactionIndex(db, id) ==
  LET hits == {i \in 1..Len(db.transactions) : db.transactions[i].id = id}
  IN  IF hits = {} THEN 0
      ELSE CHOOSE i \in hits : \A j \in hits : i <= j

\* mutant: the status is written to every record of the account of the
\* record found, not to that record alone
updateTransactionStatus_SameAccount(db, id, status) ==
  LET i == transactionIndex(db, id)
  IN  IF i # 0
        THEN [db |-> [db EXCEPT !.transactions =
                        [k \in 1..Len(@) |->
                           IF @[k].accountNumber = @[i].accountNumber
                             THEN [@[k] EXCEPT !.status = status]
                             ELSE @[k]]],
              ret |-> i]
        ELSE [db |-> db, ret |-> 0]

\* mutant: the status is never written back, the record stays as created
updateTransactionStatus_Skip(db, id, status) ==
  [db |-> db, ret |-> transactionIndex(db, id)]

updateTransactionStatus(db, id, status) ==
  LET i == transactionIndex(db, id)
  IN  IF i # 0
        THEN [db |-> [db EXCEPT !.transactions[i].status = status], ret |-> i]
        ELSE [db |-> db, ret |-> 0]

\* the object an operation returns; transaction is the position in
\* db.transactions of the record object it refers to
Result(success, transaction, reason) ==
  [success |-> success, transaction |-> transaction, reason |-> reason]

processDeposit(db, accountNumber, amount) ==
  LET c  == createTransaction(db,
              TransactionInput(accountNumber, "deposit", amount,
                               Absent, Absent, Absent))
      id == c.db.transactions[c.ret].id
      u  == updateCustomerBalance(c.db, accountNumber, amount)
  IN  IF u.ret
        THEN [db  |-> updateTransactionStatus(u.db, id, "completed").db,
              ret |-> Result(TRUE, c.ret, Absent)]
        ELSE [db  |-> updateTransactionStatus(u.db, id, "failed").db,
              ret |-> Result(FALSE, c.ret, Absent)]

\* mutant: only a missing account is refused, the balance is not compared
insufficient_NullOnly(balance, amount) ==
  balance.isNull

\* balance === null || balance < amount
insufficient(balance, amount) ==
  \/ balance.isNull
  \/ (~balance.isNull /\ balance.value < amount)

\* lines 162-179: the path taken once the balance check has passed
withdrawalSettle(db, accountNumber, amount) ==
  LET c  == createTransaction(db,
              TransactionInput(accountNumber, "withdrawal", amount,
                               Absent, Absent, Absent))
      id == c.db.transactions[c.ret].id
      u  == updateCustomerBalance(c.db, accountNumber, 0 - amount)
  IN  IF u.ret
        THEN [db  |-> updateTransactionStatus(u.db, id, "completed").db,
              ret |-> Result(TRUE, c.ret, Absent)]
        ELSE [db  |-> updateTransactionStatus(u.db, id, "failed").db,
              ret |-> Result(FALSE, c.ret, Absent)]

processWithdrawal(db, accountNumber, amount) ==
  LET balance == getCustomerBalance(db, accountNumber)
  IN  IF insufficient(balance, amount)
        THEN LET c == createTransaction(db,
                        TransactionInput(accountNumber, "withdrawal", amount,
                                         Absent, "failed", "Insufficient funds"))
             IN  [db |-> c.db,
                  ret |-> Result(FALSE, c.ret, "Insufficient funds")]
        ELSE withdrawalSettle(db, accountNumber, amount)

\* mutant: the debit is applied, the credit of the destination is left out
transferSettle_DropCredit(db, sourceAccount, destinationAccount, amount) ==
  LET c  == createTransaction(db,
              TransactionInput(sourceAccount, "transfer", amount,
                               destinationAccount, Absent, Absent))
      id == c.db.transactions[c.ret].id
      sourceUpdate == updateCustomerBalance(c.db, sourceAccount, 0 - amount)
  IN  [db  |-> updateTransactionStatus(sourceUpdate.db, id, "completed").db,
       ret |-> Result(TRUE, c.ret, Absent)]

\* lines 211-235: the path taken once both checks have passed
transferSettle(db, sourceAccount, destinationAccount, amount) ==
  LET c  == createTransaction(db,
              TransactionInput(sourceAccount, "transfer", amount,
                               destinationAccount, Absent, Absent))
      id == c.db.transactions[c.ret].id
      sourceUpdate == updateCustomerBalance(c.db, sourceAccount, 0 - amount)
      destUpdate == updateCustomerBalance(sourceUpdate.db, destinationAccount,
                                          amount)
  IN  IF sourceUpdate.ret /\ destUpdate.ret
        THEN [db  |-> updateTransactionStatus(destUpdate.db, id,
                                              "completed").db,
              ret |-> Result(TRUE, c.ret, Absent)]
        ELSE LET rolled == IF sourceUpdate.ret
                             THEN updateCustomerBalance(destUpdate.db,
                                                        sourceAccount, amount).db
                             ELSE destUpdate.db
             IN  [db  |-> updateTransactionStatus(rolled, id, "failed").db,
                  ret |-> Result(FALSE, c.ret, Absent)]

\* a transfer that fails a check: one record created already 'failed'
transferReject(db, sourceAccount, destinationAccount, amount, reason) ==
  LET c == createTransaction(db,
             TransactionInput(sourceAccount, "transfer", amount,
                              destinationAccount, "failed", reason))
  IN  [db |-> c.db, ret |-> Result(FALSE, c.ret, reason)]

\* mutant: the source is debited before the destination is looked up, and
\* a missing destination is rejected without giving the amount back
processTransfer_DebitBeforeDestinationCheck(db, sourceAccount, destinationAccount, amount) ==
  LET sourceBalance == getCustomerBalance(db, sourceAccount)
      destinationCustomer == getCustomerByAccountNumber(db, destinationAccount)
      debited == updateCustomerBalance(db, sourceAccount, 0 - amount).db
  IN  IF insufficient(sourceBalance, amount)
        THEN transferReject(db, sourceAccount, destinationAccount, amount,
                            "Insufficient funds")
        ELSE IF destinationCustomer = 0
          THEN transferReject(debited, sourceAccount, destinationAccount,
                              amount, "Destination account not found")
          ELSE transferSettle(db, sourceAccount, destinationAccount, amount)

\* mutant: the destination is checked before the source balance
processTransfer_DestinationFirst(db, sourceAccount, destinationAccount, amount) ==
  LET sourceBalance == getCustomerBalance(db, sourceAccount)
      destinationCustomer == getCustomerByAccountNumber(db, destinationAccount)
  IN  IF destinationCustomer = 0
        THEN transferReject(db, sourceAccount, destinationAccount, amount,
                            "Destination account not found")
        ELSE IF insufficient(sourceBalance, amount)
          THEN transferReject(db, sourceAccount, destinationAccount, amount,
                              "Insufficient funds")
          ELSE transferSettle(db, sourceAccount, destinationAccount, amount)

\* mutant: the destination is not checked before the balances are touched
processTransfer_NoDestinationCheck(db, sourceAccount, destinationAccount, amount) ==
  LET sourceBalance == getCustomerBalance(db, sourceAccount)
  IN  IF insufficient(sourceBalance, amount)
        THEN transferReject(db, sourceAccount, destinationAccount, amount,
                            "Insufficient funds")
        ELSE transferSettle(db, sourceAccount, destinationAccount, amount)

processTransfer(db, sourceAccount, destinationAccount, amount) ==
  LET sourceBalance == getCustomerBalance(db, sourceAccount)
      destinationCustomer == getCustomerByAccountNumber(db, destinationAccount)
  IN  IF insufficient(sourceBalance, amount)
        THEN transferReject(db, sourceAccount, destinationAccount, amount,
                            "Insufficient funds")
        ELSE IF destinationCustomer = 0
          THEN transferReject(db, sourceAccount, destinationAccount, amount,
                              "Destination account not found")
          ELSE transferSettle(db, sourceAccount, destinationAccount, amount)

----------------------------------------------------------------------------
(* analyticsOperations *)

CountStatus(seq, status) ==
  LET Is(t) == t.status = status IN Len(SelectSeq(seq, Is))

getTransactionSummary(db) ==
  [totalCount |-> Len(db.transactions),
   completedCount |-> CountStatus(db.transactions, "completed"),
   pendingCount |-> CountStatus(db.transactions, "pending"),
   failedCount |-> CountStatus(db.transactions, "failed"),
   depositTotal |-> db.analytics.depositTotal,
   withdrawalTotal |-> db.analytics.withdrawalTotal,
   transferTotal |-> db.analytics.transferTotal]

\* the records of one type, in the order of the array
filterByType(seq, type) ==
  LET Is(t) == t.type = type IN SelectSeq(seq, Is)

\* mutant: the transfers are filtered with the withdrawal type
getTransactionsByType_WrongFilter(db) ==
  [deposits |-> filterByType(db.transactions, "deposit"),
   withdrawals |-> filterByType(db.transactions, "withdrawal"),
   transfers |-> filterByType(db.transactions, "withdrawal")]

getTransactionsByType(db) ==
  [deposits |-> filterByType(db.transactions, "deposit"),
   withdrawals |-> filterByType(db.transactions, "withdrawal"),
   transfers |-> filterByType(db.transactions, "transfer")]

\* db.sessions.indexOf(sessionId): the first position holding it, 0 for -1
indexOf(seq, sessionId) ==
  LET hits == {i \in 1..Len(seq) : seq[i] = sessionId}
  IN  IF hits = {} THEN 0
      ELSE CHOOSE i \in hits : \A j \in hits : i <= j

\* seq.splice(index, 1) for a position that exists
spliceOne(seq, index) ==
  SubSeq(seq, 1, index - 1) \o SubSeq(seq, index + 1, Len(seq))

\* mutant: the index is not tested, and splice(-1, 1) removes the last
\* element of the array
trackSession_NoIndexCheck(db, sessionId, active) ==
  LET index == indexOf(db.sessions, sessionId)
      after == IF active THEN Append(db.sessions, sessionId)
               ELSE IF index # 0 THEN spliceOne(db.sessions, index)
               ELSE IF db.sessions = <<>> THEN <<>>
               ELSE spliceOne(db.sessions, Len(db.sessions))
  IN  [db  |-> [db EXCEPT !.sessions = after,
                          !.analytics.activeSessions = Len(after)],
       ret |-> Len(after)]

\* db here carries the sessions array and the analytics counters
trackSession(db, sessionId, active) ==
  LET index == indexOf(db.sessions, sessionId)
      after == IF active THEN Append(db.sessions, sessionId)
               ELSE IF index # 0 THEN spliceOne(db.sessions, index)
               ELSE db.sessions
  IN  [db  |-> [db EXCEPT !.sessions = after,
                          !.analytics.activeSessions = Len(after)],
       ret |-> Len(after)]

----------------------------------------------------------------------------
(* The function bodies statement by statement.  A call record c holds the
   arguments, pc (the statement reached) and the locals; each operator below
   runs one statement group on (db, c) and returns the new db and c. *)

NotIssued ==
  [pc |-> "unissued", op |-> "none", accountNumber |-> Absent,
   destinationAccount |-> Absent, amount |-> 0,
   balance |-> Null,        \* const balance / sourceBalance
   transaction |-> 0,       \* const transaction (position in the log)
   sourceUpdate |-> FALSE,  \* const success / sourceUpdate
   destUpdate |-> FALSE,    \* const destUpdate
   result |-> Result(FALSE, 0, Absent),
   applied |-> <<>>,        \* history: the balance changes observed so far
   queuedAtStart |-> {}]    \* history: requests waiting when this one began

\* the first statement of each function
entry(op) == IF op = "deposit" THEN "create" ELSE "checkSource"

\* history: what a balance update did to the balance of the account
observed(before, after, accountNumber, ok) ==
  IF ok
    THEN << [accountNumber |-> accountNumber,
             delta |-> getCustomerBalance(after, accountNumber).value
                       - getCustomerBalance(before, accountNumber).value] >>
    ELSE <<>>

\* mutant: a call that finds the balance short waits for funds and checks
\* again instead of rejecting
stepCheckSource_Retry(db, c) ==
  LET balance == getCustomerBalance(db, c.accountNumber)
  IN  [db |-> db,
       c  |-> [c EXCEPT
                 !.balance = balance,
                 !.pc = IF insufficient(balance, c.amount) THEN "checkSource"
                        ELSE IF c.op = "transfer" THEN "checkDestination"
                        ELSE "create"]]

\* lines 150-151 and 184-185
stepCheckSource(db, c) ==
  LET balance == getCustomerBalance(db, c.accountNumber)
  IN  [db |-> db,
       c  |-> [c EXCEPT
                 !.balance = balance,
                 !.pc = IF insufficient(balance, c.amount) THEN "rejectFunds"
                        ELSE IF c.op = "transfer" THEN "checkDestination"
                        ELSE "create"]]

\* lines 198-199
stepCheckDestination(db, c) ==
  [db |-> db,
   c  |-> [c EXCEPT
             !.pc = IF getCustomerByAccountNumber(db, c.destinationAccount) = 0
                      THEN "rejectDestination" ELSE "create"]]

\* lines 152-159, 186-194 and 200-208: the record is created failed and the
\* function returns
stepReject(db, c) ==
  LET reason == IF c.pc = "rejectFunds" THEN "Insufficient funds"
                ELSE "Destination account not found"
      t == createTransaction(db,
             TransactionInput(c.accountNumber, c.op, c.amount,
                              IF c.op = "transfer" THEN c.destinationAccount
                              ELSE Absent,
                              "failed", reason))
  IN  [db |-> t.db,
       c  |-> [c EXCEPT !.transaction = t.ret,
                        !.result = Result(FALSE, t.ret, reason),
                        !.pc = "returned"]]

\* mutant: the record is created already completed, before any balance is
\* touched
stepCreate_Completed(db, c) ==
  LET t == createTransaction(db,
             TransactionInput(c.accountNumber, c.op, c.amount,
                              IF c.op = "transfer" THEN c.destinationAccount
                              ELSE Absent,
                              "completed", Absent))
  IN  [db |-> t.db,
       c  |-> [c EXCEPT !.transaction = t.ret,
                        !.pc = IF c.op = "transfer" THEN "debit"
                               ELSE "update"]]

\* lines 129-133, 163-167 and 212-217
stepCreate(db, c) ==
  LET t == createTransaction(db,
             TransactionInput(c.accountNumber, c.op, c.amount,
                              IF c.op = "transfer" THEN c.destinationAccount
                              ELSE Absent,
                              Absent, Absent))
  IN  [db |-> t.db,
       c  |-> [c EXCEPT !.transaction = t.ret,
                        !.pc = IF c.op = "transfer" THEN "debit"
                               ELSE "update"]]

\* line 136 (deposit) and line 170 (withdrawal)
stepUpdate(db, c) ==
  LET u == updateCustomerBalance(db, c.accountNumber,
                                 IF c.op = "deposit" THEN c.amount
                                 ELSE 0 - c.amount)
  IN  [db |-> u.db,
       c  |-> [c EXCEPT !.sourceUpdate = u.ret,
                        !.applied = @ \o observed(db, u.db, c.accountNumber,
                                                  u.ret),
                        !.pc = "status"]]

\* line 220
stepDebit(db, c) ==
  LET u == updateCustomerBalance(db, c.accountNumber, 0 - c.amount)
  IN  [db |-> u.db,
       c  |-> [c EXCEPT !.sourceUpdate = u.ret,
                        !.applied = @ \o observed(db, u.db, c.accountNumber,
                                                  u.ret),
                        !.pc = "credit"]]

\* line 221
stepCredit(db, c) ==
  LET u == updateCustomerBalance(db, c.destinationAccount, c.amount)
  IN  [db |-> u.db,
       c  |-> [c EXCEPT !.destUpdate = u.ret,
                        !.applied = @ \o observed(db, u.db,
                                                  c.destinationAccount, u.ret),
                        !.pc = "status"]]

\* lines 139-145, 173-179 and 224-235: the status is written, after the
\* rollback of a transfer whose debit was applied and whose credit was not,
\* and the function returns
stepStatus(db, c) ==
  LET id == db.transactions[c.transaction].id
      ok == IF c.op = "transfer" THEN c.sourceUpdate /\ c.destUpdate
            ELSE c.sourceUpdate
      rolled == IF c.op = "transfer" /\ c.sourceUpdate
                  THEN updateCustomerBalance(db, c.accountNumber, c.amount).db
                  ELSE db
  IN  IF ok
        THEN [db |-> updateTransactionStatus(db, id, "completed").db,
              c  |-> [c EXCEPT !.result = Result(TRUE, c.transaction, Absent),
                               !.pc = "returned"]]
        ELSE [db |-> updateTransactionStatus(rolled, id, "failed").db,
              c  |-> [c EXCEPT !.result = Result(FALSE, c.transaction, Absent),
                               !.pc = "returned"]]

----------------------------------------------------------------------------
(* The state machine *)

NoCall == [op |-> "none", accountNumber |-> Absent,
           destinationAccount |-> Absent, amount |-> 0,
           result |-> Result(FALSE, 0, Absent),
           sessionId |-> Absent, active |-> FALSE, count |-> 0,
           id |-> Absent, status |-> Absent]

Init ==
  /\ customers = InitCustomers
  /\ transactions = InitTransactions
  /\ analytics = InitAnalytics
  /\ uuidCount = 0
  /\ clock = 0
  /\ pre = [customers |-> InitCustomers, transactions |-> InitTransactions,
            analytics |-> InitAnalytics, sessions |-> <<>>]
  /\ last = NoCall
  /\ sessions = <<>>
  /\ calls = [r \in Requests |-> NotIssued]

\* the tables become those of r.db, the call and its returned value are
\* recorded, and time moves on
Commit(op, accountNumber, destinationAccount, amount, r) ==
  /\ customers' = r.db.customers
  /\ transactions' = r.db.transactions
  /\ analytics' = r.db.analytics
  /\ uuidCount' = r.db.uuidCount
  /\ clock' = clock + 1
  /\ pre' = [customers |-> customers, transactions |-> transactions,
             analytics |-> analytics, sessions |-> sessions]
  /\ last' = [NoCall EXCEPT !.op = op, !.accountNumber = accountNumber,
                            !.destinationAccount = destinationAccount,
                            !.amount = amount, !.result = r.ret]
  /\ UNCHANGED <<sessions, calls>>

Deposit ==
  /\ clock < MaxOps
  /\ \E accountNumber \in AccountNumbers, amount \in Amounts :
       Commit("deposit", accountNumber, Absent, amount,
              processDeposit(DB, accountNumber, amount))

Withdrawal ==
  /\ clock < MaxOps
  /\ \E accountNumber \in AccountNumbers, amount \in Amounts :
       Commit("withdrawal", accountNumber, Absent, amount,
              processWithdrawal(DB, accountNumber, amount))

Transfer ==
  /\ clock < MaxOps
  /\ \E sourceAccount \in AccountNumbers,
        destinationAccount \in AccountNumbers, amount \in Amounts :
       Commit("transfer", sourceAccount, destinationAccount, amount,
              processTransfer(DB, sourceAccount, destinationAccount, amount))

TrackSession ==
  /\ clock < MaxOps
  /\ \E sessionId \in SessionIds, active \in BOOLEAN :
       LET r == trackSession([sessions |-> sessions, analytics |-> analytics],
                             sessionId, active)
       IN  /\ sessions' = r.db.sessions
           /\ analytics' = r.db.analytics
           /\ clock' = clock + 1
           /\ pre' = [customers |-> customers, transactions |-> transactions,
                      analytics |-> analytics, sessions |-> sessions]
           /\ last' = [NoCall EXCEPT !.op = "trackSession",
                                     !.sessionId = sessionId,
                                     !.active = active, !.count = r.ret]
           /\ UNCHANGED <<customers, transactions, uuidCount, calls>>

\* the arguments of the calls of updateCustomerBalance made on its own
DirectAccountNumbers == {"10001", "10002", "nonexistent"}

DirectAmounts == {-6000, 750}

\* customerOperations is exported: updateCustomerBalance takes calls from
\* any importer of the module, with no record created and no check made.
\* result.success is the boolean it returns
UpdateCustomerBalance ==
  /\ clock < MaxOps
  /\ \E accountNumber \in DirectAccountNumbers, amount \in DirectAmounts :
       LET r == updateCustomerBalance(DB, accountNumber, amount)
       IN  /\ customers' = r.db.customers
           /\ transactions' = r.db.transactions
           /\ analytics' = r.db.analytics
           /\ uuidCount' = r.db.uuidCount
           /\ clock' = clock + 1
           /\ pre' = [customers |-> customers, transactions |-> transactions,
                      analytics |-> analytics, sessions |-> sessions]
           /\ last' = [NoCall EXCEPT !.op = "updateCustomerBalance",
                                     !.accountNumber = accountNumber,
                                     !.amount = amount,
                                     !.result = Result(r.ret, 0, Absent)]
           /\ UNCHANGED <<sessions, calls>>

Next ==
  \/ Deposit \/ Withdrawal \/ Transfer \/ TrackSession
  \/ UpdateCustomerBalance

Spec == Init /\ [][Next]_vars

----------------------------------------------------------------------------
(* The log primitives called on their own: transactionOperations is exported,
   so createTransaction and updateTransactionStatus take calls from any
   importer of the module *)

TransactionIds == {"t1", "t2", "t3", "uuid-1", "nonexistent"}

Statuses == {"pending", "completed", "failed"}

LogAccountNumbers == {"10001", "10002", "nonexistent"}

LogAmounts == {750, 6000}

CreateTransaction ==
  /\ clock < MaxOps
  /\ \E type \in {"deposit", "withdrawal", "transfer"},
        accountNumber \in LogAccountNumbers, amount \in LogAmounts,
        status \in {Absent, "failed"} :
       LET r == createTransaction(DB,
                  TransactionInput(accountNumber, type, amount, Absent,
                                   status, Absent))
       IN  /\ transactions' = r.db.transactions
           /\ analytics' = r.db.analytics
           /\ uuidCount' = r.db.uuidCount
           /\ clock' = clock + 1
           /\ pre' = [customers |-> customers, transactions |-> transactions,
                      analytics |-> analytics, sessions |-> sessions]
           /\ last' = [NoCall EXCEPT !.op = "createTransaction",
                                     !.accountNumber = accountNumber,
                                     !.amount = amount,
                                     !.result = Result(TRUE, r.ret, Absent)]
           /\ UNCHANGED <<customers, sessions, calls>>

\* result.transaction is the position of the record the call returns, 0 when
\* it returns null
UpdateTransactionStatus ==
  /\ clock < MaxOps
  /\ \E id \in TransactionIds, status \in Statuses :
       LET r == updateTransactionStatus(DB, id, status)
       IN  /\ transactions' = r.db.transactions
           /\ analytics' = r.db.analytics
           /\ uuidCount' = r.db.uuidCount
           /\ clock' = clock + 1
           /\ pre' = [customers |-> customers, transactions |-> transactions,
                      analytics |-> analytics, sessions |-> sessions]
           /\ last' = [NoCall EXCEPT !.op = "updateTransactionStatus",
                                     !.id = id, !.status = status,
                                     !.result = Result(r.ret # 0, r.ret,
                                                       Absent)]
           /\ UNCHANGED <<customers, sessions, calls>>

LogNext == CreateTransaction \/ UpdateTransactionStatus

LogSpec == Init /\ [][LogNext]_vars

----------------------------------------------------------------------------
(* The statement-level state machine: requests are issued, wait, and are run
   by the single JavaScript thread *)

Running(r) == calls[r].pc \notin {"unissued", "queued", "returned"}

\* mutant: a request begins while another is inside its function body
canStart_Always(r) ==
  calls[r].pc = "queued"

\* the functions are synchronous: a request begins only when no other is
\* inside its function body
canStart(r) ==
  /\ calls[r].pc = "queued"
  /\ \A o \in Requests \ {r} : ~Running(o)

\* the tables become those of s.db and request r continues as s.c; a call
\* that has returned hands its result to the caller and time moves on
Advance(r, s) ==
  /\ customers' = s.db.customers
  /\ transactions' = s.db.transactions
  /\ analytics' = s.db.analytics
  /\ uuidCount' = s.db.uuidCount
  /\ calls' = [calls EXCEPT ![r] = s.c]
  /\ IF s.c.pc = "returned"
       THEN /\ clock' = clock + 1
            /\ last' = [NoCall EXCEPT
                          !.op = s.c.op, !.accountNumber = s.c.accountNumber,
                          !.destinationAccount =
                             IF s.c.op = "transfer"
                               THEN s.c.destinationAccount ELSE Absent,
                          !.amount = s.c.amount, !.result = s.c.result]
       ELSE UNCHANGED <<clock, last>>
  /\ UNCHANGED <<pre, sessions>>

\* a caller issues a request, its arguments drawn from these sets
IssueFrom(accountNumbers, amounts) ==
  \E r \in Requests :
    /\ calls[r].pc = "unissued"
    /\ \E op \in {"deposit", "withdrawal", "transfer"},
          accountNumber \in accountNumbers,
          destinationAccount \in accountNumbers, amount \in amounts :
         /\ (op # "transfer" => destinationAccount = accountNumber)
         /\ calls' = [calls EXCEPT ![r] =
                        [NotIssued EXCEPT
                           !.pc = "queued", !.op = op,
                           !.accountNumber = accountNumber,
                           !.destinationAccount = destinationAccount,
                           !.amount = amount]]
    /\ UNCHANGED <<customers, transactions, analytics, uuidCount, clock,
                   pre, last, sessions>>

Issue == IssueFrom(AccountNumbers, Amounts)

\* the thread enters the function of a waiting request
Start ==
  \E r \in Requests :
    /\ canStart(r)
    /\ calls' = [calls EXCEPT
                   ![r].pc = entry(calls[r].op),
                   ![r].queuedAtStart =
                      {o \in Requests \ {r} : calls[o].pc = "queued"}]
    /\ pre' = [customers |-> customers, transactions |-> transactions,
               analytics |-> analytics, sessions |-> sessions]
    /\ UNCHANGED <<customers, transactions, analytics, uuidCount, clock,
                   last, sessions>>

CheckSource ==
  \E r \in Requests :
    /\ calls[r].pc = "checkSource"
    /\ Advance(r, stepCheckSource(DB, calls[r]))

CheckDestination ==
  \E r \in Requests :
    /\ calls[r].pc = "checkDestination"
    /\ Advance(r, stepCheckDestination(DB, calls[r]))

Reject ==
  \E r \in Requests :
    /\ calls[r].pc \in {"rejectFunds", "rejectDestination"}
    /\ Advance(r, stepReject(DB, calls[r]))

Create ==
  \E r \in Requests :
    /\ calls[r].pc = "create"
    /\ Advance(r, stepCreate(DB, calls[r]))

Update ==
  \E r \in Requests :
    /\ calls[r].pc = "update"
    /\ Advance(r, stepUpdate(DB, calls[r]))

Debit ==
  \E r \in Requests :
    /\ calls[r].pc = "debit"
    /\ Advance(r, stepDebit(DB, calls[r]))

Credit ==
  \E r \in Requests :
    /\ calls[r].pc = "credit"
    /\ Advance(r, stepCredit(DB, calls[r]))

Status ==
  \E r \in Requests :
    /\ calls[r].pc = "status"
    /\ Advance(r, stepStatus(DB, calls[r]))

\* one statement group of the function that is being run
Statement ==
  \/ CheckSource \/ CheckDestination \/ Reject \/ Create
  \/ Update \/ Debit \/ Credit \/ Status

StepNext == Issue \/ Start \/ Statement

StepSpec == Init /\ [][StepNext]_vars

\* the arguments the progress check draws from: two accounts that exist and
\* one that does not, and an amount that the seeded balance of the second
\* covers and that of the first does not
FewAccountNumbers == {"10001", "10002", "nonexistent"}
FewAmounts == {6000}

IssueFew == IssueFrom(FewAccountNumbers, FewAmounts)

FairStepNext == IssueFew \/ Start \/ Statement

\* the thread keeps executing the function it has entered
FairStepSpec == Init /\ [][FairStepNext]_vars /\ WF_vars(Statement)

----------------------------------------------------------------------------
(* Vocabulary of the properties *)

\* the record object the last call returned, as it now stands in the log
LastTransaction == transactions[last.result.transaction]

\* the last call was one of these ledger operations
LedgerCall(ops) == last.op \in ops

\* the log is the log before the call plus exactly one record at the end
AppendedOne ==
  /\ Len(transactions) = Len(pre.transactions) + 1
  /\ SubSeq(transactions, 1, Len(pre.transactions)) = pre.transactions
  /\ last.result.transaction = Len(transactions)

\* the record the last call appended
NewTransaction == transactions[Len(transactions)]

\* balance of an account number in a customers table (accounts that exist)
BalanceIn(table, accountNumber) ==
  getCustomerBalance([customers |-> table], accountNumber).value

ExistsIn(table, accountNumber) ==
  ~getCustomerBalance([customers |-> table], accountNumber).isNull

\* the account numbers of the customers table
Accounts == {customers[i].accountNumber : i \in 1..Len(customers)}

\* the source of the last call had its amount covered when the call started
SourceSufficient ==
  /\ ExistsIn(pre.customers, last.accountNumber)
  /\ BalanceIn(pre.customers, last.accountNumber) >= last.amount

CompletedOfType(type) ==
  LET Keep(t) == t.type = type /\ t.status = "completed"
  IN  SelectSeq(transactions, Keep)

----------------------------------------------------------------------------
(* Properties *)

\* C1: a transfer that ends completed leaves the sum of all account balances
\* equal to the sum before it.
C1_Conservation ==
  (LedgerCall({"transfer"}) /\ LastTransaction.status = "completed")
    => SumBalances(customers) = SumBalances(pre.customers)

\* a completed transfer of a positive amount between two different accounts
\* has moved money
C1_Witness ==
  /\ LedgerCall({"transfer"})
  /\ LastTransaction.status = "completed"
  /\ last.amount > 0
  /\ last.accountNumber # last.destinationAccount
  /\ customers # pre.customers

\* C2: no account balance becomes negative as a result of a withdrawal or
\* transfer that ended completed, whatever amount the operation accepted.
C2_NonNegativity ==
  (LedgerCall({"withdrawal", "transfer"})
     /\ LastTransaction.status = "completed")
    => \A i \in 1..Len(customers) :
         pre.customers[i].balance >= 0 => customers[i].balance >= 0

\* C3: a withdrawal or transfer with amount <= 0 appends no record to the
\* log and alters no balance.
C3_RejectNonPositive ==
  (LedgerCall({"withdrawal", "transfer"}) /\ last.amount <= 0)
    => /\ transactions = pre.transactions
       /\ customers = pre.customers

\* C4: a deposit with amount <= 0 is rejected: no record is created and no
\* balance changes.
C4_DepositRejectNonPositive ==
  (LedgerCall({"deposit"}) /\ last.amount <= 0)
    => /\ ~last.result.success
       /\ transactions = pre.transactions
       /\ customers = pre.customers

\* C5: every deposit, withdrawal or transfer with a positive amount appends
\* exactly one record, of the call's type, and when the call has returned
\* that record is completed or failed, never pending.
C5_AuditCompleteness ==
  (LedgerCall({"deposit", "withdrawal", "transfer"}) /\ last.amount > 0)
    => /\ AppendedOne
       /\ NewTransaction.type = last.op
       /\ NewTransaction.amount = last.amount
       /\ NewTransaction.status \in {"completed", "failed"}

\* a deposit of a positive amount to an account that does not exist: its
\* record was created pending and ended failed
C5_Witness ==
  /\ LedgerCall({"deposit"})
  /\ last.amount > 0
  /\ ~ExistsIn(pre.customers, last.accountNumber)
  /\ NewTransaction.status = "failed"

\* C6: the totals of summary() are the sums of amount over the completed
\* records of each type; failed and pending records do not count.  Stated
\* for the logs whose amounts are all positive, the ones the operations are
\* meant to produce.
C6_AnalyticsConsistency ==
  LET summary == getTransactionSummary(DB)
  IN  (\A i \in 1..Len(transactions) : transactions[i].amount > 0)
        => /\ summary.depositTotal = SumAmounts(CompletedOfType("deposit"))
           /\ summary.withdrawalTotal
                = SumAmounts(CompletedOfType("withdrawal"))
           /\ summary.transferTotal = SumAmounts(CompletedOfType("transfer"))

\* C7: a withdrawal from a missing account, or of more than the balance,
\* returns failure with the reason Insufficient funds, appends exactly one
\* failed withdrawal record and changes no balance.
C7_WithdrawalInsufficient ==
  (LedgerCall({"withdrawal"}) /\ ~SourceSufficient)
    => /\ ~last.result.success
       /\ last.result.reason = "Insufficient funds"
       /\ AppendedOne
       /\ NewTransaction.type = "withdrawal"
       /\ NewTransaction.status = "failed"
       /\ NewTransaction.reason = "Insufficient funds"
       /\ customers = pre.customers

\* a withdrawal of more than the balance of an account that exists
C7_Witness ==
  /\ LedgerCall({"withdrawal"})
  /\ ExistsIn(pre.customers, last.accountNumber)
  /\ BalanceIn(pre.customers, last.accountNumber) < last.amount
  /\ BalanceIn(pre.customers, last.accountNumber) >= 0
  /\ ~last.result.success

\* the source was covered and the destination existed when the call started
TransferAdmitted ==
  /\ LedgerCall({"transfer"})
  /\ SourceSufficient
  /\ ExistsIn(pre.customers, last.destinationAccount)

\* the call returned success and appended exactly one completed transfer
TransferRecordedCompleted ==
  /\ last.result.success
  /\ AppendedOne
  /\ NewTransaction.type = "transfer"
  /\ NewTransaction.status = "completed"
  /\ NewTransaction.amount = last.amount

\* C8 as stated: an admitted transfer returns success, lowers the source
\* balance by exactly the amount, raises the destination balance by exactly
\* the amount, leaves the other balances alone and appends one completed
\* transfer record.  Stated for positive amounts.
C8_TransferAsStated ==
  (TransferAdmitted /\ last.amount > 0)
    => /\ TransferRecordedCompleted
       /\ BalanceIn(customers, last.accountNumber)
            = BalanceIn(pre.customers, last.accountNumber) - last.amount
       /\ BalanceIn(customers, last.destinationAccount)
            = BalanceIn(pre.customers, last.destinationAccount) + last.amount
       /\ \A a \in Accounts \ {last.accountNumber, last.destinationAccount} :
            BalanceIn(customers, a) = BalanceIn(pre.customers, a)

\* what the last transfer adds to the balance of an account: minus the amount
\* as its source plus the amount as its destination
NetDelta(a) ==
  (IF a = last.accountNumber THEN 0 - last.amount ELSE 0)
  + (IF a = last.destinationAccount THEN last.amount ELSE 0)

\* C8 amended: an admitted transfer returns success, appends one completed
\* transfer record, and changes every balance by its net delta: minus the
\* amount for the source, plus the amount for the destination, nothing when
\* source and destination are the same account, nothing for the others.
C8_TransferNetDelta ==
  TransferAdmitted
    => /\ TransferRecordedCompleted
       /\ Accounts = {pre.customers[i].accountNumber :
                        i \in 1..Len(pre.customers)}
       /\ \A a \in Accounts :
            BalanceIn(customers, a) = BalanceIn(pre.customers, a) + NetDelta(a)

\* the scenario 5000/7500 with amount 750 giving 4250/8250
C8_Witness ==
  /\ TransferAdmitted
  /\ last.accountNumber = "10001"
  /\ last.destinationAccount = "10002"
  /\ last.amount = 750
  /\ BalanceIn(pre.customers, "10001") = 5000
  /\ BalanceIn(pre.customers, "10002") = 7500
  /\ BalanceIn(customers, "10001") = 4250
  /\ BalanceIn(customers, "10002") = 8250
  /\ last.result.success

\* C9: a transfer whose source is covered but whose destination does not
\* exist returns failure with the reason Destination account not found,
\* changes no balance and appends exactly one failed transfer record.
C9_TransferDestinationMissing ==
  (LedgerCall({"transfer"}) /\ SourceSufficient
     /\ ~ExistsIn(pre.customers, last.destinationAccount))
    => /\ ~last.result.success
       /\ last.result.reason = "Destination account not found"
       /\ customers = pre.customers
       /\ AppendedOne
       /\ NewTransaction.type = "transfer"
       /\ NewTransaction.status = "failed"
       /\ NewTransaction.reason = "Destination account not found"

\* a transfer of a positive amount the source covers to a missing account
C9_Witness ==
  /\ LedgerCall({"transfer"})
  /\ SourceSufficient
  /\ last.amount > 0
  /\ ExistsIn(pre.customers, last.accountNumber)
  /\ ~ExistsIn(pre.customers, last.destinationAccount)
  /\ ~last.result.success

\* C10: the source is checked before the destination: a transfer whose
\* source is missing or not covered and whose destination does not exist
\* fails with the reason Insufficient funds and records exactly one failed
\* record.
C10_SourceCheckedFirst ==
  (LedgerCall({"transfer"}) /\ ~SourceSufficient
     /\ ~ExistsIn(pre.customers, last.destinationAccount))
    => /\ ~last.result.success
       /\ last.result.reason = "Insufficient funds"
       /\ AppendedOne
       /\ NewTransaction.type = "transfer"
       /\ NewTransaction.status = "failed"
       /\ NewTransaction.reason = "Insufficient funds"

\* a transfer of more than the source holds to a missing account
C10_Witness ==
  /\ LedgerCall({"transfer"})
  /\ ExistsIn(pre.customers, last.accountNumber)
  /\ BalanceIn(pre.customers, last.accountNumber) < last.amount
  /\ ~ExistsIn(pre.customers, last.destinationAccount)
  /\ ~last.result.success

\* the ids in a sessions array, as a set
SessionSet(seq) == {seq[i] : i \in 1..Len(seq)}

\* C11: a deposit of a positive amount to an account number that does not
\* exist returns failure, leaves its record failed with the reason account
\* not found, and changes no balance.
C11_DepositAccountNotFound ==
  (LedgerCall({"deposit"}) /\ last.amount > 0
     /\ ~ExistsIn(pre.customers, last.accountNumber))
    => /\ ~last.result.success
       /\ AppendedOne
       /\ NewTransaction.status = "failed"
       /\ NewTransaction.reason \in {"account not found", "Account not found"}
       /\ customers = pre.customers

\* C13: a deposit, withdrawal or transfer whose record ends failed leaves
\* every account balance as it was before the call.
C13_FailedLeavesBalances ==
  (LedgerCall({"deposit", "withdrawal", "transfer"})
     /\ LastTransaction.status = "failed")
    => customers = pre.customers

\* a transfer of a positive amount the source covers, failed for its
\* destination
C13_Witness ==
  /\ LedgerCall({"transfer"})
  /\ LastTransaction.status = "failed"
  /\ last.amount > 0
  /\ SourceSufficient
  /\ last.result.reason = "Destination account not found"

\* C16: trackSession(id, true) for an id that is already active leaves the
\* set of active sessions and the active session count unchanged.
C16_TrackActiveIdempotent ==
  (last.op = "trackSession" /\ last.active
     /\ last.sessionId \in SessionSet(pre.sessions))
    => /\ SessionSet(sessions) = SessionSet(pre.sessions)
       /\ analytics.activeSessions = pre.analytics.activeSessions
       /\ last.count = pre.analytics.activeSessions

\* C17: trackSession(id, false) for an id that is not active changes neither
\* the sessions nor the active session count.
C17_UntrackAbsentNoop ==
  (last.op = "trackSession" /\ ~last.active
     /\ last.sessionId \notin SessionSet(pre.sessions))
    => /\ sessions = pre.sessions
       /\ analytics.activeSessions = pre.analytics.activeSessions
       /\ last.count = Len(pre.sessions)

\* an absent id is untracked while another session is active
C17_Witness ==
  /\ last.op = "trackSession"
  /\ ~last.active
  /\ last.sessionId \notin SessionSet(pre.sessions)
  /\ pre.sessions # <<>>
  /\ analytics.activeSessions = 1

----------------------------------------------------------------------------
(* Properties of the statement-level specification *)

\* C12: the status of a record changes only from pending, and only to
\* completed or failed; so it changes at most once, and a record that is
\* completed or failed keeps its status.  No record leaves the log.
C12_StatusChangesOnce ==
  [][ /\ Len(transactions') >= Len(transactions)
      /\ \A i \in 1..Len(transactions) :
           transactions'[i].status # transactions[i].status
             => /\ transactions[i].status = "pending"
                /\ transactions'[i].status \in {"completed", "failed"} ]_vars

\* one call has ended completed and one failed, both from pending records
C12_Witness ==
  \E r, o \in Requests :
    /\ calls[r].pc = "returned" /\ calls[o].pc = "returned"
    /\ calls[r].op = "deposit" /\ calls[o].op = "deposit"
    /\ transactions[calls[r].transaction].status = "completed"
    /\ transactions[calls[o].transaction].status = "failed"

\* the balance changes a completed call of this kind is to apply, for the
\* amount its record carries
ExpectedChanges(c, amount) ==
  IF c.op = "deposit"
    THEN << [accountNumber |-> c.accountNumber, delta |-> amount] >>
  ELSE IF c.op = "withdrawal"
    THEN << [accountNumber |-> c.accountNumber, delta |-> 0 - amount] >>
  ELSE << [accountNumber |-> c.accountNumber, delta |-> 0 - amount],
          [accountNumber |-> c.destinationAccount, delta |-> amount] >>

\* C14: for every call whose record ends completed, the balance changes
\* applied are those of the recorded amount: a deposit raises the account by
\* it, a withdrawal lowers the account by it, a transfer lowers the source by
\* it and then raises the destination by it, also when both are one account.
C14_AmountIsDelta ==
  \A r \in Requests :
    (calls[r].pc = "returned"
       /\ transactions[calls[r].transaction].status = "completed")
      => /\ transactions[calls[r].transaction].amount = calls[r].amount
         /\ calls[r].applied
              = ExpectedChanges(calls[r],
                                transactions[calls[r].transaction].amount)

\* a completed transfer of a positive amount from an account to itself
C14_Witness ==
  \E r \in Requests :
    /\ calls[r].pc = "returned"
    /\ calls[r].op = "transfer"
    /\ calls[r].accountNumber = calls[r].destinationAccount
    /\ calls[r].amount > 0
    /\ transactions[calls[r].transaction].status = "completed"

\* the call has passed its balance check and has not yet debited the account
BetweenCheckAndDebit(c) ==
  /\ c.op \in {"withdrawal", "transfer"}
  /\ c.pc \in {"checkDestination", "create", "update", "debit"}

\* C15: between the balance check of a withdrawal or transfer and its own
\* debit, the balance of the account is the one the check read: no other
\* operation has changed it.  Hence two withdrawals of positive amounts from
\* one account, issued together, do not both succeed when the amounts add up
\* to more than the balance.
C15_PerAccountSerialization ==
  /\ \A r \in Requests :
       BetweenCheckAndDebit(calls[r])
         => getCustomerBalance(DB, calls[r].accountNumber) = calls[r].balance
  /\ \A r, o \in Requests :
       (/\ r # o
        /\ calls[r].op = "withdrawal" /\ calls[o].op = "withdrawal"
        /\ calls[r].accountNumber = calls[o].accountNumber
        /\ calls[r].amount > 0 /\ calls[o].amount > 0
        /\ calls[r].pc = "returned" /\ calls[o].pc = "returned"
        /\ calls[r].result.success /\ calls[o].result.success)
         => calls[r].amount + calls[o].amount
              <= BalanceIn(InitCustomers, calls[r].accountNumber)

\* two withdrawals from one account were waiting together, each covered by
\* the balance alone, together not: one succeeded, the other did not
C15_Witness ==
  \E r, o \in Requests :
    /\ r # o
    /\ calls[r].op = "withdrawal" /\ calls[o].op = "withdrawal"
    /\ calls[r].accountNumber = calls[o].accountNumber
    /\ o \in calls[r].queuedAtStart
    /\ calls[r].amount > 0 /\ calls[o].amount > 0
    /\ calls[r].amount <= BalanceIn(InitCustomers, calls[r].accountNumber)
    /\ calls[o].amount <= BalanceIn(InitCustomers, calls[r].accountNumber)
    /\ calls[r].amount + calls[o].amount
         > BalanceIn(InitCustomers, calls[r].accountNumber)
    /\ calls[r].pc = "returned" /\ calls[o].pc = "returned"
    /\ calls[r].result.success /\ ~calls[o].result.success

\* every transfer that reaches its status statement has had both balance
\* updates succeed: the rollback branch of lines 229-235 is never taken
TransferUpdatesSucceed ==
  \A r \in Requests :
    (calls[r].op = "transfer" /\ calls[r].pc = "status")
      => (calls[r].sourceUpdate /\ calls[r].destUpdate)

\* C20: every call that has started finishes: it returns its success or
\* failure result.
C20_EveryCallFinishes ==
  \A r \in Requests : Running(r) ~> (calls[r].pc = "returned")

\* two transfers between the same two accounts in opposite directions were
\* waiting together and have both returned
C20_Witness ==
  \E r, o \in Requests :
    /\ r # o
    /\ calls[r].op = "transfer" /\ calls[o].op = "transfer"
    /\ calls[r].accountNumber # calls[r].destinationAccount
    /\ calls[r].accountNumber = calls[o].destinationAccount
    /\ calls[r].destinationAccount = calls[o].accountNumber
    /\ ExistsIn(customers, calls[r].accountNumber)
    /\ ExistsIn(customers, calls[o].accountNumber)
    /\ o \in calls[r].queuedAtStart
    /\ calls[r].pc = "returned" /\ calls[o].pc = "returned"

----------------------------------------------------------------------------
(* Properties of the log, the accounts and the analytics *)

\* the fields of a record that are set at creation
Created(t) ==
  [id |-> t.id, type |-> t.type, amount |-> t.amount,
   accountNumber |-> t.accountNumber,
   destinationAccount |-> t.destinationAccount, timestamp |-> t.timestamp]

\* C23: the log is append-only: no record is removed or moved, new records
\* come at the end, and the id, type, amount, account numbers and timestamp
\* of a record never change.
C23_AppendOnly ==
  [][ /\ Len(transactions') >= Len(transactions)
      /\ \A i \in 1..Len(transactions) :
           Created(transactions'[i]) = Created(transactions[i]) ]_vars

\* a second record has been appended after one whose status was updated
C23_Witness ==
  /\ Len(transactions) = Len(InitTransactions) + 2
  /\ transactions[Len(InitTransactions) + 1].status = "completed"
  /\ LedgerCall({"deposit", "withdrawal", "transfer"})

\* C24: the account numbers are those of the seeded customers, in every
\* reachable state.
C24_AccountsFixed ==
  /\ Len(customers) = Len(InitCustomers)
  /\ \A i \in 1..Len(InitCustomers) :
       /\ customers[i].accountNumber = InitCustomers[i].accountNumber
       /\ customers[i].id = InitCustomers[i].id

\* a deposit was made to an account number that no customer has
C24_Witness ==
  /\ LedgerCall({"deposit"})
  /\ last.accountNumber \notin
       {InitCustomers[i].accountNumber : i \in 1..Len(InitCustomers)}
  /\ last.amount > 0

\* the positions in the log of the records of seq, found by their ids
Positions(seq) == [k \in 1..Len(seq) |-> transactionIndex(DB, seq[k].id)]

\* seq, whose records are at positions pos of the log, holds records of this
\* type only, in the order of the log
InLogOrder(seq, pos, type) ==
  /\ \A k \in 1..Len(seq) :
       /\ seq[k].type = type
       /\ pos[k] # 0
       /\ transactions[pos[k]] = seq[k]
  /\ \A k, l \in 1..Len(seq) : k < l => pos[k] < pos[l]

\* how many times position i of the log occurs in pos
Occurrences(pos, i) == Cardinality({k \in DOMAIN pos : pos[k] = i})

\* C25: byType() partitions the log: each of deposits, withdrawals and
\* transfers holds records of its type in log order, and every log record is
\* in exactly one of the three.
C25_ByTypePartitions ==
  LET byType == getTransactionsByType(DB)
      d == Positions(byType.deposits)
      w == Positions(byType.withdrawals)
      t == Positions(byType.transfers)
  IN  /\ InLogOrder(byType.deposits, d, "deposit")
      /\ InLogOrder(byType.withdrawals, w, "withdrawal")
      /\ InLogOrder(byType.transfers, t, "transfer")
      /\ \A i \in 1..Len(transactions) :
           Occurrences(d, i) + Occurrences(w, i) + Occurrences(t, i) = 1

\* the log holds records of all three types, two of them created by calls,
\* and one type occurs twice with another type in between
C25_Witness ==
  /\ Len(transactions) = Len(InitTransactions) + 2
  /\ last.op = "createTransaction"
  /\ transactions[Len(InitTransactions) + 1].type = "transfer"
  /\ transactions[Len(InitTransactions) + 2].type = "deposit"

\* every call so far passed a positive amount: each call appends one record
\* carrying its amount
AllAmountsPositive ==
  \A i \in 1..Len(transactions) : transactions[i].amount > 0

\* C26: under deposits, withdrawals and transfers that all use positive
\* amounts, every account balance is >= 0: the seeded balances are >= 0, and
\* a deposit, withdrawal or transfer of a positive amount that starts with
\* every balance >= 0 ends with every balance >= 0.
C26_BalancesNonNegative ==
  /\ \A i \in 1..Len(InitCustomers) : InitCustomers[i].balance >= 0
  /\ ( /\ LedgerCall({"deposit", "withdrawal", "transfer"})
       /\ last.amount > 0
       /\ \A i \in 1..Len(pre.customers) : pre.customers[i].balance >= 0 )
       => \A i \in 1..Len(customers) : customers[i].balance >= 0

\* an account was emptied below a later request: a withdrawal succeeded and
\* the next one on the same account was refused
C26_Witness ==
  /\ AllAmountsPositive
  /\ \A i \in 1..Len(pre.customers) : pre.customers[i].balance >= 0
  /\ Len(transactions) = Len(InitTransactions) + 2
  /\ LedgerCall({"withdrawal"})
  /\ ~last.result.success
  /\ transactions[Len(InitTransactions) + 1].type = "withdrawal"
  /\ transactions[Len(InitTransactions) + 1].status = "completed"
  /\ transactions[Len(InitTransactions) + 1].accountNumber = last.accountNumber

\* C27: analytics.totalTransactions is the number of records in the log, so
\* getAnalytics().totalTransactions = getTransactionSummary().totalCount.
C27_TotalTransactionsIsLength ==
  /\ analytics.totalTransactions = Len(transactions)
  /\ analytics.totalTransactions = getTransactionSummary(DB).totalCount

\* a call has been refused and its record, created failed, counted
C27_Witness ==
  /\ LedgerCall({"withdrawal", "transfer"})
  /\ NewTransaction.status = "failed"
  /\ analytics.totalTransactions = Len(InitTransactions) + 1

\* the records of one type, whatever their status
OfType(type) == filterByType(transactions, type)

\* C28: each stored total is the sum of amount over all log records of its
\* type, whatever their status: it is added to at creation and a status
\* change to failed does not reduce it.
C28_TotalsCountEveryRecord ==
  /\ analytics.depositTotal = SumAmounts(OfType("deposit"))
  /\ analytics.withdrawalTotal = SumAmounts(OfType("withdrawal"))
  /\ analytics.transferTotal = SumAmounts(OfType("transfer"))

\* a deposit of a positive amount has ended failed and a withdrawal has been
\* refused, and both amounts are in the totals
C28_Witness ==
  /\ Len(transactions) = Len(InitTransactions) + 2
  /\ transactions[Len(InitTransactions) + 1].type = "deposit"
  /\ transactions[Len(InitTransactions) + 1].status = "failed"
  /\ transactions[Len(InitTransactions) + 1].amount > 0
  /\ transactions[Len(InitTransactions) + 2].type = "withdrawal"
  /\ transactions[Len(InitTransactions) + 2].status = "failed"
  /\ transactions[Len(InitTransactions) + 2].amount > 0
  /\ analytics.depositTotal > InitAnalytics.depositTotal
  /\ analytics.withdrawalTotal > InitAnalytics.withdrawalTotal

\* C29: the success flag a deposit, withdrawal or transfer returns is true
\* exactly when the returned record is completed in the log and false
\* exactly when it is failed.
C29_SuccessMatchesStatus ==
  LedgerCall({"deposit", "withdrawal", "transfer"})
    => /\ last.result.success <=> (LastTransaction.status = "completed")
       /\ ~last.result.success <=> (LastTransaction.status = "failed")

\* a withdrawal has returned success and its record is completed
C29_Witness ==
  /\ LedgerCall({"withdrawal"})
  /\ last.result.success
  /\ last.amount > 0
  /\ LastTransaction.status = "completed"

\* C22: whenever a statement changes a balance, the record of the call that
\* runs it is already in the log, with the call's type, amount and account,
\* and its status is pending.
C22_PendingBeforeMutation ==
  [][ customers' # customers
        => \E r \in Requests :
             /\ Running(r)
             /\ calls'[r] # calls[r]
             /\ calls[r].transaction \in 1..Len(transactions)
             /\ LET t == transactions[calls[r].transaction]
                IN  /\ t.status = "pending"
                    /\ t.type = calls[r].op
                    /\ t.amount = calls[r].amount
                    /\ t.accountNumber = calls[r].accountNumber ]_vars

\* a call has changed a balance and has not yet set the status of its record
C22_Witness ==
  \E r \in Requests :
    /\ calls[r].pc \in {"status", "credit"}
    /\ calls[r].applied # <<>>
    /\ customers # pre.customers
    /\ transactions[calls[r].transaction].status = "pending"

\* C21: updateTransactionStatus sets a status at most once: called on a
\* record that is already completed or failed, it leaves the status as it
\* was.
C21_SetStatusAtMostOnce ==
  ( /\ last.op = "updateTransactionStatus"
    /\ last.result.transaction # 0
    /\ pre.transactions[last.result.transaction].status
         \in {"completed", "failed"} )
    => transactions[last.result.transaction].status
         = pre.transactions[last.result.transaction].status

====
